---------------------------- MODULE Spec2Model ----------------------------
(***************************************************************************)
(* Model of the persistence layer of fossfund:                             *)
(*   - the Record model of fossfund/database/model/record.py (coroutine    *)
(*     based: save awaits the statement it issues),                        *)
(*   - the Record model of fossfund/database/model.py (future based: save, *)
(*     update and delete schedule the statement and hand back a future),   *)
(*   - the domain entities Project and Organisation (getList),             *)
(*   - the query runner (database.run, Record._runQuery).                  *)
(*   - database.insert, Record.deleteID, the Project with its logo files   *)
(*     (project.py), and schema.setup.                                     *)
(*   - Record.__init__ and database.clean as functions of their input      *)
(*     mappings.                                                           *)
(* The Record modelled is Organisation over the table `organisations`.     *)
(***************************************************************************)
EXTENDS Integers, Sequences, FiniteSets, TLC

\* ------------------------------------------------------------------ bounds

\* keys the store's serial primary-key sequence hands out
MaxKey == 2
\* coroutines that may have a statement outstanding at once
MaxTasks == 2
\* pages a caller asks getList for: -1 .. MaxPage
MaxPage == 3
\* connections the engine's pool can hand out
PoolSize == 1
\* concurrent calls of the query runner
MaxCalls == 2
\* largest configured page size
MaxPerPage == 2

Keys == 1..MaxKey
Tasks == 1..MaxTasks

\* ------------------------------------------------------------ Python values
\* A value is a pair <<tag, n>>.  None is the "not queried / unset" sentinel,
\* NULL the singleton marker of record.py:47.  StrV(0) is the empty string,
\* StrV(1) "Example" (7 characters), StrV(2) "A sufficiently long
\* description" (31 characters), StrV(3) "True", StrV(4) "NULL",
\* StrV(5) " Example" (8 characters, the first a space), StrV(6) " " (one
\* space),
\* StrV(100 + n) the decimal text of the integer n.

None == <<"none", 0>>
NULL == <<"null", 0>>
IntV(n) == <<"int", n>>
StrV(n) == <<"str", n>>
BoolV(b) == <<"bool", IF b THEN 1 ELSE 0>>
Raised == <<"raised", 0>>

\* Python truthiness (`if val`): None, 0, "" and False are falsy; the NULL
\* marker is an ordinary object and so truthy.
Truthy(v) ==
    CASE v[1] = "none" -> FALSE
      [] v[1] = "null" -> TRUE
      [] OTHER -> v[2] # 0

StrLen(v) ==
    CASE v[2] = 0 -> 0
      [] v[2] = 1 -> 7
      [] v[2] = 2 -> 31
      [] v[2] = 5 -> 8
      [] v[2] = 6 -> 1
      [] OTHER -> 4

\* ------------------------------------------------------------------ schema

Cols == <<"orgID", "name", "desc", "logo">>
ColSet == {Cols[i] : i \in DOMAIN Cols}
PrimaryKey == "orgID"
NonKeyCols == ColSet \ {PrimaryKey}

ColType(c) ==
    CASE c = "orgID" -> "Integer"
      [] c = "name" -> "String"
      [] c = "desc" -> "String"
      [] c = "logo" -> "Boolean"

\* typ.python_type(val): int(val), str(val) or bool(val) of a truthy value.
\* int() of a non-numeric string, or of the NULL marker, raises.
PythonType(typ, v) ==
    CASE typ = "Integer" ->
            (CASE v[1] = "int" -> v
               [] v[1] = "bool" -> IntV(v[2])
               [] v[1] = "str" /\ v[2] >= 100 -> IntV(v[2] - 100)
               [] OTHER -> Raised)
      [] typ = "String" ->
            (CASE v[1] = "str" -> v
               [] v[1] = "int" -> StrV(100 + v[2])
               [] v[1] = "bool" -> StrV(3)
               [] OTHER -> StrV(4))
      [] typ = "Boolean" -> BoolV(TRUE)

\* ------------------------------------------------------------------- store
\* The table `organisations` (schema.py:44-48): rows is a function from the
\* keys of the stored rows to their non-key columns.  SqlNull is SQL NULL.

SqlNull == <<"sqlnull", 0>>

\* In a mapping (a statement's VALUES, a constructor's input): the key is
\* not in the mapping.
Absent == <<"absent", 0>>

\* A bound parameter as the driver sends it: Python None is SQL NULL.
ToSql(v) == IF v = None THEN SqlNull ELSE v

\* A fetched column as the driver returns it: SQL NULL is Python None.
FromSql(v) == IF v = SqlNull THEN None ELSE v

\* Column('name', String(40), nullable=False) and
\* Column('desc', String(300), CheckConstraint('char_length("desc") > 14'))
ConstraintsHold(row) ==
    /\ row["name"] # SqlNull
    /\ row["desc"] # SqlNull => StrLen(row["desc"]) > 14

\* The values a statement would write carry the NULL marker object, which
\* is not a value of any column type.
HasMarker(vals) == \E c \in NonKeyCols : vals[c] = NULL

\* The row an UPDATE ... VALUES(vals) makes of `row`.
Updated(row, vals) ==
    [c \in NonKeyCols |-> IF vals[c] # Absent THEN ToSql(vals[c]) ELSE row[c]]

\* The row an INSERT ... VALUES(vals) creates: a column not named is NULL,
\* except logo, whose Python-side default is False (schema.py:48).
Inserted(vals) ==
    [c \in NonKeyCols |->
        IF vals[c] # Absent THEN ToSql(vals[c])
        ELSE IF c = "logo" THEN BoolV(FALSE) ELSE SqlNull]

\* The marker replaced as a driver that wrote it as NULL would.
MarkerAsNull(vals) == [c \in NonKeyCols |-> IF vals[c] = NULL THEN None ELSE vals[c]]

\* ------------------------------------------------------------------- state

VARIABLES
    rows,        \* the table: key -> non-key columns of the stored row
    nextKey,     \* next value of the table's primary-key sequence
    fields,      \* the Record instance: column -> value (None when unset)
    committed,   \* the Record instance's `committed`
    modified,    \* history: columns given a value since the last commit
    tasks,       \* per coroutine: the statement it has outstanding
    ev,          \* outcome of the call that completed last
    future,      \* model.py: `_future`, 0 for None, else the call that made it
    cbs,         \* model.py: per call, the done-callback of its pending future
    dirty,       \* model.py: `dirty`
    dirtyFields, \* model.py: `_dirtyFields`
    config,      \* Config: projectsPerPage, organisationsPerPage
    ret,         \* the last find / findOne / getList call and its result
    engine,      \* Record._engine: 0 for None, else the engine it refers to
    created,     \* engines create() has made
    held,        \* per pool: connections acquired and not released
    calls,       \* per call of the query runner: where it is
    awaitable,   \* per call of deleteID: the Future it returned
    arg,         \* the mapping a caller passes to the constructor or to clean
    got,         \* the call made with it, and what the call returned
    proj,        \* a Project instance: fields, committed, staged logo
    psave,       \* the save() of that instance: the statement outstanding
    projects,    \* the table projects: key -> non-key columns, and its sequence
    files,       \* the project logo directory: key -> content of the file
    pev,         \* outcome of the Project call that completed last
    catalog,     \* the store's schema: names of its tables and of its types
    setupSt      \* setup(conn): where it is, and what it read

storeVars == <<rows, nextKey>>
recVars == <<fields, committed, modified>>
futVars == <<future, cbs, dirty, dirtyFields>>
runVars == <<engine, created, held, calls>>
logoVars == <<proj, psave, projects, files, pev>>
extVars == <<logoVars, catalog, setupSt, arg, got, awaitable>>
vars == <<rows, nextKey, fields, committed, modified, tasks, ev,
          future, cbs, dirty, dirtyFields, config, ret,
          engine, created, held, calls, awaitable, arg, got,
          proj, psave, projects, files, pev, catalog, setupSt>>

NoVals == [c \in NonKeyCols |-> Absent]
Unset == [c \in ColSet |-> None]

IdleTask ==
    [pc |-> "idle", call |-> "none", op |-> "none", id |-> None,
     vals |-> NoVals, pre |-> Unset, out |-> "none", key |-> 0]

NoEvent == [op |-> "none", kind |-> "none", out |-> "none"]
Event(op, kind, out) == [op |-> op, kind |-> kind, out |-> out]

Idle(t) == tasks[t].pc = "idle"
NoneInFlight == \A t \in Tasks : Idle(t)
\* A call runs in the first coroutine that has nothing outstanding.
FirstIdle(t) == Idle(t) /\ \A u \in Tasks : u < t => ~Idle(u)

\* ------------------------------------------------------ the store's statements

\* The store executes INSERT ... RETURNING key.  The key comes from the
\* sequence unless the statement gives one; a key already stored, or a row
\* breaking a constraint, is an IntegrityError.
ExecInsert(t, id, vals) ==
    LET seq == id[1] # "int"
        k == IF seq THEN nextKey ELSE id[2]
    IN  /\ seq => nextKey <= MaxKey
        /\ IF ConstraintsHold(Inserted(vals)) /\ k \notin DOMAIN rows
           THEN /\ rows' = [j \in DOMAIN rows \cup {k} |->
                               IF j = k THEN Inserted(vals) ELSE rows[j]]
                /\ tasks' = [tasks EXCEPT ![t].pc = "replied", ![t].out = "ok",
                                          ![t].key = k]
           ELSE /\ rows' = rows
                /\ tasks' = [tasks EXCEPT ![t].pc = "replied",
                                          ![t].out = "IntegrityError"]
        /\ nextKey' = IF seq /\ ConstraintsHold(Inserted(vals))
                      THEN nextKey + 1 ELSE nextKey

\* The store executes UPDATE ... WHERE key = id; no row matches a key that
\* is None or not stored.
ExecUpdate(t, id, vals) ==
    /\ IF id[1] = "int" /\ id[2] \in DOMAIN rows
       THEN IF ConstraintsHold(Updated(rows[id[2]], vals))
            THEN /\ rows' = [rows EXCEPT ![id[2]] = Updated(rows[id[2]], vals)]
                 /\ tasks' = [tasks EXCEPT ![t].pc = "replied", ![t].out = "ok"]
            ELSE /\ rows' = rows
                 /\ tasks' = [tasks EXCEPT ![t].pc = "replied",
                                           ![t].out = "IntegrityError"]
       ELSE /\ rows' = rows
            /\ tasks' = [tasks EXCEPT ![t].pc = "replied", ![t].out = "ok"]
    /\ UNCHANGED nextKey

\* The store executes DELETE ... WHERE key = id.
ExecDelete(t, id) ==
    /\ rows' = [k \in DOMAIN rows \ (IF id[1] = "int" THEN {id[2]} ELSE {}) |-> rows[k]]
    /\ tasks' = [tasks EXCEPT ![t].pc = "replied", ![t].out = "ok"]
    /\ UNCHANGED nextKey

\* The statement is refused before it reaches the store.
ExecRefused(t) ==
    /\ tasks' = [tasks EXCEPT ![t].pc = "replied", ![t].out = "ProgrammingError"]
    /\ UNCHANGED <<rows, nextKey>>

\* conn.execute(query) completes (_runQuery, record.py:88-92, model.py:90-94).
\* A statement whose values hold the NULL marker object is either refused
\* by the driver or sent with SQL NULL in its place: the driver is not part
\* of this repository.
StoreExec(t) ==
    /\ tasks[t].pc = "sent"
    /\ LET id == IF tasks[t].id = NULL THEN None ELSE tasks[t].id
           vals == MarkerAsNull(tasks[t].vals)
       IN  \/ /\ tasks[t].op = "insert"
              /\ ExecInsert(t, id, vals)
           \/ /\ tasks[t].op = "update"
              /\ ExecUpdate(t, id, vals)
           \/ /\ tasks[t].op = "delete"
              /\ ExecDelete(t, id)
           \/ /\ HasMarker(tasks[t].vals) \/ tasks[t].id = NULL
              /\ ExecRefused(t)
    /\ UNCHANGED <<recVars, futVars, ev, config, ret, runVars, extVars>>

\* ------------------------------------------------- record.py: the Record

\* The mapping (dict) that holds the keys a padded mapping gives a value.
Dict(m) == [k \in {n \in DOMAIN m : m[n] # Absent} |-> m[k]]

\* A constructor that coerces every value, the falsy ones too.
Attrs_Coerced(data) ==
    [c \in {n \in ColSet : n \in DOMAIN data} |-> PythonType(ColType(c), data[c])]

\* Record.__init__ (record.py:175-194), the attributes it sets from the
\* dict `data`: one per column that is a key of data, the value coerced to
\* the column's Python type unless falsy.
Attrs(data) ==
    [c \in {n \in ColSet : n \in DOMAIN data} |->
        IF Truthy(data[c]) THEN PythonType(ColType(c), data[c]) ELSE data[c]]

\* The fields of the constructed record as getattr(self, col, None) reads
\* them (record.py:211, 221): None for a column the input does not name.
InitFields(data) ==
    LET a == Attrs(Dict(data))
    IN  [c \in ColSet |-> IF c \in DOMAIN a THEN a[c] ELSE None]

\* Record._data (record.py:203-215): every column but the primary key,
\* None for a field that is unset.
Data(f) == [c \in NonKeyCols |-> f[c]]

\* A _saveCallback that marks the record committed without filling the
\* unset fields.
SaveCallbackFields_NoFill(f) == f

\* Record._saveCallback (record.py:248-254), the fields it leaves.
SaveCallbackFields(f) == [c \in ColSet |-> IF f[c] = None THEN NULL ELSE f[c]]

\* Input mappings handed to the constructor: posted form fields
\* (organisation/__init__.py:53-56, 98-101), all strings; the form may
\* carry the primary key.
In(o, n, d, l) == [orgID |-> o, name |-> n, desc |-> d, logo |-> l]

Inputs ==
    {In(o, n, d, Absent) :
        o \in {Absent, StrV(101)},
        n \in {Absent, StrV(1)},
        d \in {Absent, StrV(1), StrV(2)}}

\* Direct field assignments the handlers make between construction and
\* save (setLogo, removeLogo, `org.logo = None`; logo.py:69-82,
\* organisation/__init__.py:103-108).
Assignments == {<<"logo", BoolV(TRUE)>>, <<"logo", BoolV(FALSE)>>, <<"logo",
                  None>>}

\* setattr(record, col, v) by the handler that owns the instance.
SetField(col, v) ==
    /\ NoneInFlight
    /\ fields' = [fields EXCEPT ![col] = v]
    /\ modified' = modified \cup {col}
    /\ ev' = Event("assign", "none", "return")
    /\ UNCHANGED <<storeVars, committed, tasks, futVars, config, ret, runVars,
                   extVars>>

\* The statement Record.save issues (record.py:241-244): chosen by
\* `committed`, built from the fields as they are at the call.
SaveStatement(f, c) ==
    [pc |-> "sent", call |-> "save",
     op |-> IF c THEN "update" ELSE "insert",
     id |-> IF c THEN f[PrimaryKey] ELSE None,
     vals |-> Data(f), pre |-> f, out |-> "none", key |-> 0]

\* Record.save (record.py:230-246) up to its await; the primary key is
\* configured for Organisation (organisation.py:15).
SaveCall(t) ==
    /\ FirstIdle(t)
    /\ tasks' = [tasks EXCEPT ![t] = SaveStatement(fields, committed)]
    /\ ev' = NoEvent
    /\ UNCHANGED <<storeVars, recVars, futVars, config, ret, runVars, extVars>>

\* Record.save after its await (record.py:242-246) with _saveCallback
\* (record.py:248-254): an exception of the statement propagates and
\* leaves the instance as it is.
SaveResume(t) ==
    /\ tasks[t].pc = "replied"
    /\ tasks[t].call = "save"
    /\ IF tasks[t].out = "ok"
       THEN /\ fields' = SaveCallbackFields(
                    IF tasks[t].op = "insert"
                    THEN [fields EXCEPT ![PrimaryKey] = IntV(tasks[t].key)]
                    ELSE fields)
            /\ committed' = TRUE
            /\ modified' = {}
            /\ ev' = Event("save", tasks[t].op, "return")
       ELSE /\ UNCHANGED recVars
            /\ ev' = Event("save", tasks[t].op, tasks[t].out)
    /\ tasks' = [tasks EXCEPT ![t] = IdleTask]
    /\ UNCHANGED <<storeVars, futVars, config, ret, runVars, extVars>>

\* str.strip() of the strings of the model.
Strip(v) ==
    IF v = StrV(5) THEN StrV(1)
    ELSE IF v = StrV(6) THEN StrV(0)
    ELSE v

\* clean(data, table) (database/__init__.py:33-51) of the dict `data`: the
\* primary key and keys that are no column are dropped, an empty string
\* becomes None, other strings are stripped.
CleanData(data) ==
    [k \in {n \in DOMAIN data : n \in ColSet /\ n # PrimaryKey} |->
        IF data[k] = StrV(0) THEN None
        ELSE IF data[k][1] = "str" THEN Strip(data[k])
        ELSE data[k]]

\* The values of the statement insert builds of the cleaned data
\* (database/__init__.py:94-97): the columns it names.
Clean(data) ==
    LET d == CleanData(Dict(data))
    IN  [c \in NonKeyCols |-> IF c \in DOMAIN d THEN d[c] ELSE Absent]

\* Form data the handlers pass to insert (project/__init__.py:88-98).
InsertInputs ==
    {In(o, n, d, l) :
        o \in {Absent, StrV(101)},
        n \in {Absent, StrV(0), StrV(5)},
        d \in {StrV(1), StrV(2)},
        l \in {BoolV(FALSE)}}

\* insert(app, table, data, res) (database/__init__.py:83-101): the cleaned
\* data is inserted; the new row's key is returned, or None when the
\* store raised IntegrityError.  A handler calls it between the saves.
DbInsert(data) ==
    /\ NoneInFlight
    /\ nextKey <= MaxKey
    /\ IF ConstraintsHold(Inserted(Clean(data)))
       THEN /\ rows' = [j \in DOMAIN rows \cup {nextKey} |->
                           IF j = nextKey THEN Inserted(Clean(data)) ELSE rows[j]]
            /\ nextKey' = nextKey + 1
            /\ ev' = Event("insert", "insert", "return")
       ELSE /\ UNCHANGED <<rows, nextKey>>
            /\ ev' = Event("insert", "insert", "None")
    /\ UNCHANGED <<recVars, tasks, futVars, config, ret, runVars, extVars>>

\* A stored row as another client's insert left it.
SeedRow == [c \in NonKeyCols |->
    CASE c = "name" -> StrV(1) [] c = "desc" -> StrV(2) [] c = "logo" -> BoolV(FALSE)]

\* The table before the handler runs: empty, or holding the row of key 1.
SeedTable(seeded) == [k \in (IF seeded THEN {1} ELSE {}) |-> SeedRow]

\* No find has been called; the page sizes are those of the configuration.
NoQuery == [kind |-> "none", key |-> 0, limit |-> 0, offset |-> 0]
NoRet ==
    [call |-> "none", cls |-> "none", q |-> NoQuery, strict |-> FALSE,
     page |-> 0, out |-> "none", queried |-> FALSE, value |-> <<>>]

Configs ==
    [projectsPerPage : 1..MaxPerPage, organisationsPerPage : 1..MaxPerPage]

\* Specifications that call no getList run under one configuration.
InitNoFind ==
    /\ config = [projectsPerPage |-> 1, organisationsPerPage |-> 1]
    /\ ret = NoRet

InitFind ==
    /\ config \in Configs
    /\ ret = NoRet

\* The table projects (schema.py:33-40) and the Project (project.py:14-37).
PCols == <<"projID", "orgID", "name", "desc", "homepage", "logo">>
PColSet == {PCols[i] : i \in 1..Len(PCols)}
PPrimaryKey == "projID"
PNonKeyCols == PColSet \ {PPrimaryKey}
PColType(c) ==
    CASE c \in {"projID", "orgID"} -> "Integer"
      [] c \in {"name", "desc", "homepage"} -> "String"
      [] c = "logo" -> "Boolean"

\* Staged logo bytes: empty, within Config.maxLogoSize, above it; and the
\* MIME types "text/plain" and "image/png".
Bytes(n) == <<"bytes", n>>
Mime(n) == <<"mime", n>>
IsImage(m) == m = Mime(1)
TooLarge(b) == b[2] > 1

\* Project.__init__ (project.py:106-114) over Record.__init__: the fields
\* of the class are None (project.py:21-37) unless the input names them.
PInitFields(data) ==
    [c \in PColSet |->
        IF data[c] = Absent THEN None
        ELSE IF Truthy(data[c]) THEN PythonType(PColType(c), data[c])
        ELSE data[c]]

PNoVals == [c \in PNonKeyCols |-> Absent]
NewProject(data, committed_) ==
    [fields |-> PInitFields(data), committed |-> committed_,
     logoData |-> None, logoMime |-> None]

PIdle ==
    [pc |-> "idle", op |-> "none", id |-> None, vals |-> PNoVals,
     out |-> "none", key |-> 0]
NoPEvent == [call |-> "none", out |-> "none"]

\* Neither the constructor nor clean has been called on a mapping of its
\* own.
NoRes == [call |-> "none", out |-> "none", value |-> <<>>, prev |-> <<>>]
InitNoData ==
    /\ arg = <<>>
    /\ got = NoRes

\* No Project is being handled.
InitNoLogo ==
    /\ proj = NewProject([c \in PColSet |-> Absent], FALSE)
    /\ psave = PIdle
    /\ projects = [rows |-> <<>>, next |-> 1]
    /\ files = [k \in 0..MaxKey |-> "none"]
    /\ pev = NoPEvent

\* The schema of schema.py: its tables (33-87), the list setup creates
\* (89-90) and the enum types (27-30, 92-93).
SchemaTables ==
    {"projects", "organisations", "urls", "groups", "memberships", "users",
     "sessions"}
tables == <<"organisations", "groups", "projects", "memberships", "users",
            "sessions">>
enums == <<"urltype", "oauthprovider">>
SeqRange(q) == {q[i] : i \in 1..Len(q)}

\* setup has not been called; the store has the schema an earlier setup
\* made.
SetupIdle == [pc |-> "idle", existing |-> {}, before |-> [tables |-> {}, types |-> {}]]
InitNoSetup ==
    /\ catalog = [tables |-> SeqRange(tables), types |-> SeqRange(enums)]
    /\ setupSt = SetupIdle

\* No call of the query runner is under way.  Pool 0 is app.db, the pools
\* 1.. are those of the engines Record._runQuery creates.
Calls == 1..MaxCalls
Pools == 0..MaxCalls
IdleCall ==
    [pc |-> "idle", runner |-> "none", given |-> FALSE, pool |-> 0,
     acquired |-> 0, on |-> "none", out |-> "none", holds |-> FALSE,
     rowsRead |-> "none"]

InitRun ==
    /\ engine = 0
    /\ created = 0
    /\ held = [p \in Pools |-> 0]
    /\ calls = [c \in Calls |-> IdleCall]

\* deleteID has not been called.
InitNoDelete == awaitable = [t \in Tasks |-> "none"]

\* The state after __init__ of model.py:245-275 has set the bookkeeping.
InitFuture ==
    /\ future = 0
    /\ cbs = [t \in Tasks |-> "none"]
    /\ dirty = FALSE
    /\ dirtyFields = {}

\* The state after cls(data, committed) (record.py:175-194) has returned.
Init ==
    /\ \E seeded \in BOOLEAN :
        /\ rows = SeedTable(seeded)
        /\ nextKey = IF seeded THEN 2 ELSE 1
    /\ \E data \in Inputs :
        /\ \A c \in ColSet : InitFields(data)[c] # Raised
        /\ fields = InitFields(data)
        /\ modified = {c \in NonKeyCols : data[c] # Absent}
    /\ committed \in BOOLEAN
    /\ tasks = [t \in Tasks |-> IdleTask]
    /\ ev = Event("construct", "none", "return")
    /\ InitFuture
    /\ InitNoDelete
    /\ InitNoFind
    /\ InitRun
    /\ InitNoLogo
    /\ InitNoData
    /\ InitNoSetup

Next ==
    \/ \E a \in Assignments : SetField(a[1], a[2])
    \/ \E t \in Tasks : SaveCall(t)
    \/ \E t \in Tasks : StoreExec(t)
    \/ \E t \in Tasks : SaveResume(t)
    \/ \E data \in InsertInputs : DbInsert(data)

Spec == Init /\ [][Next]_vars

\* --------------------------------------------- model.py: the Record (futures)
\* The entity is taken to declare its primary key, as Organisation does.

\* A call slot whose statement has ended and whose future is done.
Free(t) == Idle(t) /\ cbs[t] = "none"
FirstFree(t) == Free(t) /\ \A u \in Tasks : u < t => ~Free(u)

\* Record._getData (model.py:126-138): the dirty columns, or all of them.
GetData(f, onlyDirty, dirtyCols) ==
    [c \in NonKeyCols |-> IF onlyDirty /\ c \notin dirtyCols THEN Absent ELSE f[c]]

\* The statement a call schedules with asyncio.ensure_future.
Scheduled(call, op, id, vals, f) ==
    [pc |-> "sent", call |-> call, op |-> op, id |-> id,
     vals |-> vals, pre |-> f, out |-> "none", key |-> 0]

\* Record.save (model.py:154-178).
FSaveCall ==
    /\ IF future # 0
       THEN /\ ev' = Event("save", "none", "OperationPendingError")
            /\ UNCHANGED <<tasks, future, cbs>>
       ELSE IF committed
       THEN /\ ev' = Event("save", "none", "InvalidStateError")
            /\ UNCHANGED <<tasks, future, cbs>>
       ELSE \E t \in Tasks :
            /\ FirstFree(t)
            /\ future' = t
            /\ tasks' = [tasks EXCEPT ![t] =
                    Scheduled("fsave", "insert", fields[PrimaryKey],
                              GetData(fields, FALSE, dirtyFields), fields)]
            /\ cbs' = [cbs EXCEPT ![t] = "save"]
            /\ ev' = Event("save", "insert", "future")
    /\ UNCHANGED <<storeVars, recVars, dirty, dirtyFields, config, ret,
                   runVars, extVars>>

\* Record.update (model.py:189-212).
FUpdateCall ==
    /\ IF future # 0
       THEN /\ ev' = Event("update", "none", "OperationPendingError")
            /\ UNCHANGED <<tasks, future, cbs>>
       ELSE IF ~committed
       THEN /\ ev' = Event("update", "none", "InvalidStateError")
            /\ UNCHANGED <<tasks, future, cbs>>
       ELSE IF ~dirty
       THEN /\ ev' = Event("update", "none", "future")
            /\ UNCHANGED <<tasks, future, cbs>>
       ELSE \E t \in Tasks :
            /\ FirstFree(t)
            /\ future' = t
            /\ tasks' = [tasks EXCEPT ![t] =
                    Scheduled("fupdate", "update", fields[PrimaryKey],
                              GetData(fields, TRUE, dirtyFields), fields)]
            /\ cbs' = [cbs EXCEPT ![t] = "update"]
            /\ ev' = Event("update", "update", "future")
    /\ UNCHANGED <<storeVars, recVars, dirty, dirtyFields, config, ret,
                   runVars, extVars>>

\* Record.delete (model.py:221-236): only `committed` is looked at.
FDeleteCall ==
    /\ IF ~committed
       THEN /\ ev' = Event("delete", "none", "InvalidStateError")
            /\ UNCHANGED <<tasks, future, cbs>>
       ELSE \E t \in Tasks :
            /\ FirstFree(t)
            /\ future' = t
            /\ tasks' = [tasks EXCEPT ![t] =
                    Scheduled("fdelete", "delete", fields[PrimaryKey], NoVals, fields)]
            /\ cbs' = [cbs EXCEPT ![t] = "delete"]
            /\ ev' = Event("delete", "delete", "future")
    /\ UNCHANGED <<storeVars, recVars, dirty, dirtyFields, config, ret,
                   runVars, extVars>>

\* The scheduled coroutine ends; its result or exception goes to nobody.
FTaskEnd(t) ==
    /\ tasks[t].pc = "replied"
    /\ tasks[t].call \in {"fsave", "fupdate", "fdelete"}
    /\ tasks' = [tasks EXCEPT ![t] = IdleTask]
    /\ UNCHANGED <<storeVars, recVars, futVars, ev, config, ret, runVars,
                   extVars>>

\* The future a call returned becomes done and runs the callback added to
\* it: _saveCallback (model.py:180-187), _updateCallback (model.py:214-219)
\* or _deleteCallback (model.py:238-243).  No code of the repository
\* completes the future: only its holder can (set_result, cancel).
FutureDone(t) ==
    /\ cbs[t] # "none"
    /\ IF cbs[t] = "save"
       THEN /\ fields' = SaveCallbackFields(fields)
            /\ committed' = TRUE
            /\ modified' = {}
            /\ UNCHANGED <<dirty, dirtyFields>>
       ELSE IF cbs[t] = "update"
       THEN /\ dirtyFields' = {}
            /\ dirty' = FALSE
            /\ UNCHANGED recVars
       ELSE /\ fields' = Unset
            /\ UNCHANGED <<committed, modified, dirty, dirtyFields>>
    /\ future' = 0
    /\ ev' = Event("callback", cbs[t], "return")
    /\ cbs' = [cbs EXCEPT ![t] = "none"]
    /\ UNCHANGED <<storeVars, tasks, config, ret, runVars, extVars>>

\* A fetched row as the mapping the constructor is given (record.py:105,
\* model.py:107).
RowData(k) ==
    [c \in ColSet |-> IF c = PrimaryKey THEN IntV(k) ELSE FromSql(rows[k][c])]

\* The instance is new and uncommitted, or was made of the fetched row 1.
InitF ==
    /\ \E seeded \in BOOLEAN :
        /\ rows = SeedTable(seeded)
        /\ nextKey = IF seeded THEN 2 ELSE 1
        /\ committed = seeded
        /\ IF seeded
           THEN /\ fields = InitFields(RowData(1))
                /\ modified = {}
           ELSE \E data \in Inputs :
                /\ data[PrimaryKey] = Absent
                /\ fields = InitFields(data)
                /\ modified = {c \in NonKeyCols : data[c] # Absent}
    /\ tasks = [t \in Tasks |-> IdleTask]
    /\ ev = Event("construct", "none", "return")
    /\ InitFuture
    /\ InitNoDelete
    /\ InitNoFind
    /\ InitRun
    /\ InitNoLogo
    /\ InitNoData
    /\ InitNoSetup

NextF ==
    \/ \E a \in Assignments : SetField(a[1], a[2])
    \/ FSaveCall
    \/ FUpdateCall
    \/ FDeleteCall
    \/ \E t \in Tasks : StoreExec(t)
    \/ \E t \in Tasks : FTaskEnd(t)
    \/ \E t \in Tasks : FutureDone(t)

SpecFuture == InitF /\ [][NextF]_vars

\* The event loop runs every scheduled coroutine to its end, and the store
\* answers every statement; the holder of a future owes it nothing.
SpecFutureFair ==
    /\ SpecFuture
    /\ \A t \in Tasks : WF_vars(StoreExec(t))
    /\ \A t \in Tasks : WF_vars(FTaskEnd(t))

\* ------------------------------------------- find, findOne, findID, getList

\* The keys of a set in ascending order: the order the table is read in.
KeySeq(S) ==
    CHOOSE q \in [1..Cardinality(S) -> S] :
        \A i, j \in 1..Cardinality(S) : i < j => q[i] < q[j]

Min(a, b) == IF a < b THEN a ELSE b

Query(kind, key, limit, offset) ==
    [kind |-> kind, key |-> key, limit |-> limit, offset |-> offset]
\* table.select()
SelectAll == Query("all", 0, -1, 0)
\* A select by key that lost its WHERE clause.
SelectID_Unfiltered(k) == Query("all", k, -1, 0)
\* table.select().where(table.columns[primaryKey] == value)
SelectID(k) == Query("byID", k, -1, 0)

\* The keys of the rows a SELECT returns, in the order it returns them;
\* a limit of -1 is no LIMIT.
Select(q) ==
    IF q.kind = "byID"
    THEN IF q.key \in DOMAIN rows THEN <<q.key>> ELSE <<>>
    ELSE LET all == KeySeq(DOMAIN rows)
             last == IF q.limit < 0 THEN Len(all)
                     ELSE Min(Len(all), q.offset + q.limit)
         IN  SubSeq(all, q.offset + 1, last)

\* cls(row, True) (record.py:105).
Wrap(k) == [fields |-> InitFields(RowData(k)), committed |-> TRUE]

\* Record._find (record.py:94-105): every row of the result, wrapped.
Find(q) == [i \in 1..Len(Select(q)) |-> Wrap(Select(q)[i])]

Outcome(out, value) == [out |-> out, value |-> value]

\* Record._findOne as model.py:119-124 has it: res[0] of an empty list.
FindOneResult_Unguarded(res, strict) ==
    IF strict /\ Len(res) > 1 THEN Outcome("NotUniqueError", <<>>)
    ELSE IF Len(res) = 0 THEN Outcome("IndexError", <<>>)
    ELSE Outcome("return", <<res[1]>>)

\* Record._findOne (record.py:117-122) on the list _find returned; the
\* value is <<>> for None.
FindOneResult(res, strict) ==
    IF strict /\ Len(res) > 1 THEN Outcome("NotUniqueError", <<>>)
    ELSE Outcome("return", IF Len(res) > 0 THEN <<res[1]>> ELSE <<>>)

\* The SELECT of getList: Project (project.py:81-84) and Organisation
\* (organisation.py:37-40).
ListQuery(cls, page) ==
    IF cls = "Project"
    THEN Query("all", 0, config.projectsPerPage,
               (page - 1) * config.projectsPerPage)
    ELSE Query("all", 0, config.projectsPerPage,
               (page - 1) * config.organisationsPerPage)

\* A getList that tells a page past the end from an empty first page the
\* wrong way round.
EmptyListError_Swapped(page) == IF page > 1 THEN "AppError" ELSE "AppFatalError"

\* getList on an empty result (project.py:86-90, organisation.py:42-46).
EmptyListError(page) == IF page > 1 THEN "AppFatalError" ELSE "AppError"

\* cls._find(query)
FindCall(q) ==
    /\ ret' = [NoRet EXCEPT !.call = "find", !.q = q, !.out = "return",
                            !.queried = TRUE, !.value = Find(q)]
    /\ UNCHANGED <<storeVars, recVars, tasks, ev, futVars, config, runVars,
                   extVars>>

\* cls._findOne(query, strict)
FindOneCall(q, strict) ==
    /\ ret' = [NoRet EXCEPT !.call = "findOne", !.q = q, !.strict = strict,
                            !.out = FindOneResult(Find(q), strict).out,
                            !.queried = TRUE,
                            !.value = FindOneResult(Find(q), strict).value]
    /\ UNCHANGED <<storeVars, recVars, tasks, ev, futVars, config, runVars,
                   extVars>>

\* Record._findID (record.py:124-133), Organisation.get (organisation.py:18-24).
FindIDCall(k) ==
    /\ ret' = [NoRet EXCEPT !.call = "findID", !.q = SelectID(k),
                            !.out = FindOneResult(Find(SelectID(k)), FALSE).out,
                            !.queried = TRUE,
                            !.value = FindOneResult(Find(SelectID(k)), FALSE).value]
    /\ UNCHANGED <<storeVars, recVars, tasks, ev, futVars, config, runVars,
                   extVars>>

\* Project.getList (project.py:70-92), Organisation.getList
\* (organisation.py:26-48).
GetListCall(cls, page) ==
    /\ IF page < 1
       THEN ret' = [NoRet EXCEPT !.call = "getList", !.cls = cls, !.page = page,
                                 !.out = "AppFatalError"]
       ELSE LET q == ListQuery(cls, page)
                res == Find(q)
            IN  ret' = [NoRet EXCEPT !.call = "getList", !.cls = cls,
                            !.page = page, !.q = q, !.queried = TRUE,
                            !.out = IF Len(res) = 0 THEN EmptyListError(page)
                                    ELSE "return",
                            !.value = IF Len(res) = 0 THEN <<>> ELSE res]
    /\ UNCHANGED <<storeVars, recVars, tasks, ev, futVars, config, runVars,
                   extVars>>

\* A handler takes the i-th record of cls._find(table.select()) and fetches
\* it again by its key (record.py:94-133): both records are kept.
RefetchCall(i) ==
    /\ i <= Len(Find(SelectAll))
    /\ LET first == Find(SelectAll)[i]
           q == SelectID(first.fields[PrimaryKey][2])
           again == FindOneResult(Find(q), FALSE)
       IN  ret' = [NoRet EXCEPT !.call = "refetch", !.q = q, !.out = again.out,
                                !.queried = TRUE,
                                !.value = <<first>> \o again.value]
    /\ UNCHANGED <<storeVars, recVars, tasks, ev, futVars, config, runVars,
                   extVars>>

\* Rows other handlers store: name is given, desc and logo may be NULL.
TableRows ==
    {[c \in NonKeyCols |-> CASE c = "name" -> StrV(1) [] c = "desc" -> d [] c = "logo" -> l] :
        d \in {SqlNull, StrV(2)}, l \in {SqlNull, BoolV(FALSE), BoolV(TRUE)}}

\* Another handler's INSERT reaches the table (Record._add, record.py:135-147).
TableInsert(row) ==
    /\ nextKey <= MaxKey
    /\ rows' = [j \in DOMAIN rows \cup {nextKey} |->
                   IF j = nextKey THEN row ELSE rows[j]]
    /\ nextKey' = nextKey + 1
    /\ ret' = NoRet
    /\ UNCHANGED <<recVars, tasks, ev, futVars, config, runVars, extVars>>

\* Another handler's DELETE reaches the table (Record.deleteID,
\* record.py:161-173).
TableDelete(k) ==
    /\ k \in DOMAIN rows
    /\ rows' = [j \in DOMAIN rows \ {k} |-> rows[j]]
    /\ ret' = NoRet
    /\ UNCHANGED <<nextKey, recVars, tasks, ev, futVars, config, runVars,
                   extVars>>

Pages == -1..MaxPage

InitQ ==
    /\ rows = SeedTable(FALSE)
    /\ nextKey = 1
    /\ fields = Unset
    /\ modified = {}
    /\ committed = FALSE
    /\ tasks = [t \in Tasks |-> IdleTask]
    /\ ev = NoEvent
    /\ InitFuture
    /\ InitNoDelete
    /\ InitFind
    /\ InitRun
    /\ InitNoLogo
    /\ InitNoData
    /\ InitNoSetup

NextQ ==
    \/ \E row \in TableRows : TableInsert(row)
    \/ \E k \in Keys : TableDelete(k)
    \/ FindCall(SelectAll)
    \/ \E strict \in BOOLEAN : FindOneCall(SelectAll, strict)
    \/ \E k \in 1..(MaxKey + 1) : FindIDCall(k)
    \/ \E cls \in {"Project", "Organisation"}, page \in Pages : GetListCall(cls, page)
    \/ \E i \in Keys : RefetchCall(i)

SpecFind == InitQ /\ [][NextQ]_vars

\* ------------------------------------------- database.run, Record._runQuery

\* Past the engine check: a given connection is executed on directly, else
\* one is asked of the pool (app.db for run, Record._engine for _runQuery).
Proceed(k, eng) ==
    IF k.given
    THEN [k EXCEPT !.pc = "exec", !.on = "given"]
    ELSE [k EXCEPT !.pc = "acquiring",
                   !.pool = IF k.runner = "run" THEN 0 ELSE eng]

\* run(app, query) (database/__init__.py:53-63) or
\* Record._runQuery(query, conn) (record.py:76-92) is called.
RunStart(c, runner, given) ==
    /\ calls[c].pc = "idle"
    /\ LET k == [IdleCall EXCEPT !.runner = runner, !.given = given]
       IN  calls' = [calls EXCEPT ![c] =
               IF runner = "_runQuery" /\ engine = 0
               THEN [k EXCEPT !.pc = "creating"]
               ELSE Proceed(k, engine)]
    /\ UNCHANGED <<engine, created, held, storeVars, recVars, tasks, ev,
                   futVars, config, ret, extVars>>

\* Record._engine = await create(config.db) (record.py:85-86) completes.
EngineCreated(c) ==
    /\ calls[c].pc = "creating"
    /\ created' = created + 1
    /\ engine' = created + 1
    /\ calls' = [calls EXCEPT ![c] = Proceed(calls[c], created + 1)]
    /\ UNCHANGED <<held, storeVars, recVars, tasks, ev, futVars, config, ret,
                   extVars>>

\* async with ....acquire() as conn: the pool hands a connection out; the
\* call waits while the pool has none.
Acquire(c) ==
    /\ calls[c].pc = "acquiring"
    /\ held[calls[c].pool] < PoolSize
    /\ held' = [held EXCEPT ![calls[c].pool] = @ + 1]
    /\ calls' = [calls EXCEPT ![c].pc = "exec", ![c].on = "own",
                              ![c].acquired = @ + 1, ![c].holds = TRUE]
    /\ UNCHANGED <<engine, created, storeVars, recVars, tasks, ev, futVars,
                   config, ret, extVars>>

\* await conn.execute(query) returns or raises.
Execute(c, ok) ==
    /\ calls[c].pc = "exec"
    /\ calls' = [calls EXCEPT ![c].pc = "exit",
                              ![c].out = IF ok THEN "return" ELSE "raise"]
    /\ UNCHANGED <<engine, created, held, storeVars, recVars, tasks, ev,
                   futVars, config, ret, extVars>>

\* A with-block that gives the connection back only when the body returned.
Releases_OnReturn(k) == k.on = "own" /\ k.out = "return"

\* Leaving the async with block gives the connection back, however the
\* body ended (database/__init__.py:62-63, record.py:91-92).
Releases(k) == k.on = "own"

\* The call leaves: through the with-block if it entered one.
Exit(c) ==
    /\ calls[c].pc = "exit"
    /\ held' = IF Releases(calls[c])
               THEN [held EXCEPT ![calls[c].pool] = @ - 1]
               ELSE held
    /\ calls' = [calls EXCEPT ![c].pc = "done",
                              ![c].holds = @ /\ ~Releases(calls[c])]
    /\ UNCHANGED <<engine, created, storeVars, recVars, tasks, ev, futVars,
                   config, ret, extVars>>

\* The caller reads the rows of the result the runner returned: _find
\* (record.py:103-105) and _add (record.py:142-147) after
\* _runQuery(query), fetch (database/__init__.py:77-81) and insert
\* (database/__init__.py:97-99) after run(app, query).  A connection the
\* caller gave is the caller's, held around the call
\* (project/__init__.py:116-122); the runner's own is held while its
\* with-block has it.  Whether rows read after the release still arrive is
\* up to the driver.
FetchRows(c) ==
    /\ calls[c].pc = "done"
    /\ calls[c].out = "return"
    /\ calls[c].rowsRead = "none"
    /\ calls[c].runner = "run" \/ ~calls[c].given
    /\ calls' = [calls EXCEPT ![c].rowsRead =
            IF calls[c].on = "given" \/ calls[c].holds
            THEN "held" ELSE "released"]
    /\ UNCHANGED <<engine, created, held, storeVars, recVars, tasks, ev,
                   futVars, config, ret, extVars>>

\* The caller has the outcome; the call is over.
Forget(c) ==
    /\ calls[c].pc = "done"
    /\ calls' = [calls EXCEPT ![c] = IdleCall]
    /\ UNCHANGED <<engine, created, held, storeVars, recVars, tasks, ev,
                   futVars, config, ret, extVars>>

InitR ==
    /\ rows = SeedTable(FALSE)
    /\ nextKey = 1
    /\ fields = Unset
    /\ modified = {}
    /\ committed = FALSE
    /\ tasks = [t \in Tasks |-> IdleTask]
    /\ ev = NoEvent
    /\ InitFuture
    /\ InitNoDelete
    /\ InitNoFind
    /\ InitRun
    /\ InitNoLogo
    /\ InitNoData
    /\ InitNoSetup

NextR ==
    \/ \E c \in Calls, runner \in {"run", "_runQuery"}, given \in BOOLEAN :
          RunStart(c, runner, given)
    \/ \E c \in Calls : EngineCreated(c)
    \/ \E c \in Calls : Acquire(c)
    \/ \E c \in Calls, ok \in BOOLEAN : Execute(c, ok)
    \/ \E c \in Calls : Exit(c)
    \/ \E c \in Calls : FetchRows(c)
    \/ \E c \in Calls : Forget(c)

SpecRun == InitR /\ [][NextR]_vars

\* --------------------------------------------- project.py: Project and its logo

\* The store's checks on a row of projects (schema.py:33-40): name is
\* NOT NULL, desc is longer than 14 characters, orgID names a stored
\* organisation.
PConstraintsHold(row) ==
    /\ row["name"] # SqlNull
    /\ row["desc"] # SqlNull => StrLen(row["desc"]) > 14
    /\ row["orgID"] # SqlNull => row["orgID"][2] \in DOMAIN rows

PInserted(vals) ==
    [c \in PNonKeyCols |->
        IF vals[c] # Absent THEN ToSql(vals[c])
        ELSE IF c = "logo" THEN BoolV(FALSE) ELSE SqlNull]

PUpdated(row, vals) ==
    [c \in PNonKeyCols |-> IF vals[c] # Absent THEN ToSql(vals[c]) ELSE row[c]]

PHasMarker(vals) == \E c \in PNonKeyCols : vals[c] = NULL
PMarkerAsNull(vals) ==
    [c \in PNonKeyCols |-> IF vals[c] = NULL THEN None ELSE vals[c]]

\* Record._data for a Project.
PData(f) == [c \in PNonKeyCols |-> f[c]]

\* Record._saveCallback (record.py:248-254) on the fields of a Project.
PSaveCallbackFields(f) == [c \in PColSet |-> IF f[c] = None THEN NULL ELSE f[c]]

\* The file os.path.join(projectLogoDir, str(_id)) (project.py:115-117);
\* 0 is the file named by an _id that is no key ("None", "NULL").
LogoPath(id) == IF id[1] = "int" /\ id[2] \in 1..MaxKey THEN id[2] ELSE 0

\* What the file system does to an open, a write or a remove.
IOs == {"ok", "openfails", "writefails"}

\* Project.saveLogo (project.py:39-60): MIME and size are checked before
\* the file is opened; O_CREAT|O_TRUNC has emptied the file when the write
\* fails.
SaveLogo(fs, id, logo, mime, io) ==
    IF ~IsImage(mime) THEN [out |-> "AppError", files |-> fs]
    ELSE IF TooLarge(logo) THEN [out |-> "AppError", files |-> fs]
    ELSE IF io = "ok"
         THEN [out |-> "return", files |-> [fs EXCEPT ![LogoPath(id)] = "new"]]
    ELSE IF io = "openfails" THEN [out |-> "AppError", files |-> fs]
    ELSE [out |-> "AppError", files |-> [fs EXCEPT ![LogoPath(id)] = "empty"]]

\* Project._saveCallback (project.py:119-133) after Record._saveCallback:
\* the instance, the files and the way the hook ends.
LogoHook(p, fs, io) ==
    LET cleared == [p EXCEPT !.logoData = None, !.logoMime = None]
        path == LogoPath(p.fields[PPrimaryKey])
    IN  IF Truthy(p.fields["logo"]) /\ Truthy(p.logoData)
        THEN LET w == SaveLogo(fs, p.fields[PPrimaryKey], p.logoData, p.logoMime, io)
             IN  IF w.out = "return"
                 THEN [proj |-> cleared, files |-> w.files, out |-> "return"]
                 \* saveLogo raised: lines 132-133 are not reached
                 ELSE [proj |-> p, files |-> w.files, out |-> w.out]
        ELSE IF ~Truthy(p.fields["logo"]) /\ fs[path] # "none"
        THEN IF io = "ok"
             THEN [proj |-> cleared, files |-> [fs EXCEPT ![path] = "none"],
                   out |-> "return"]
             \* os.remove raised OSError: the AppFatalError of line 130 is
             \* made and dropped, the hook goes on
             ELSE [proj |-> cleared, files |-> fs, out |-> "return"]
        ELSE [proj |-> cleared, files |-> fs, out |-> "return"]

PEvent(call, out) == [call |-> call, out |-> out]

\* Project.setLogo (project.py:135-143).
SetLogo(logo, mime) ==
    /\ psave.pc = "idle"
    /\ proj' = [proj EXCEPT !.logoData = logo, !.logoMime = mime,
                            !.fields["logo"] = BoolV(TRUE)]
    /\ pev' = PEvent("setLogo", "return")
    /\ UNCHANGED <<psave, projects, files>>
    /\ UNCHANGED <<storeVars, recVars, tasks, ev, futVars, config, ret,
                   runVars, catalog, setupSt, arg, got, awaitable>>

\* Project.removeLogo (project.py:145-148).
RemoveLogo ==
    /\ psave.pc = "idle"
    /\ proj' = [proj EXCEPT !.fields["logo"] = BoolV(FALSE)]
    /\ pev' = PEvent("removeLogo", "return")
    /\ UNCHANGED <<psave, projects, files>>
    /\ UNCHANGED <<storeVars, recVars, tasks, ev, futVars, config, ret,
                   runVars, catalog, setupSt, arg, got, awaitable>>

\* Project.save (record.py:230-246) up to its await.
PSaveCall ==
    /\ psave.pc = "idle"
    /\ psave' = [pc |-> "sent",
                 op |-> IF proj.committed THEN "update" ELSE "insert",
                 id |-> IF proj.committed THEN proj.fields[PPrimaryKey] ELSE None,
                 vals |-> PData(proj.fields), out |-> "none", key |-> 0]
    /\ pev' = NoPEvent
    /\ UNCHANGED <<proj, projects, files>>
    /\ UNCHANGED <<storeVars, recVars, tasks, ev, futVars, config, ret,
                   runVars, catalog, setupSt, arg, got, awaitable>>

PReplied(out, key) == [psave EXCEPT !.pc = "replied", !.out = out, !.key = key]

\* conn.execute of the statement of save: INSERT ... RETURNING projID or
\* UPDATE ... WHERE projID = id; a statement that carries the NULL marker
\* object is refused by the driver or sent with NULL in its place.
PStoreExec ==
    /\ psave.pc = "sent"
    /\ LET vals == PMarkerAsNull(psave.vals)
           id == IF psave.id = NULL THEN None ELSE psave.id
       IN  \/ /\ psave.op = "insert"
              /\ projects.next <= MaxKey
              /\ IF PConstraintsHold(PInserted(vals))
                 THEN /\ projects' =
                           [rows |-> [j \in DOMAIN projects.rows \cup {projects.next} |->
                                        IF j = projects.next THEN PInserted(vals)
                                        ELSE projects.rows[j]],
                            next |-> projects.next + 1]
                      /\ psave' = PReplied("ok", projects.next)
                 ELSE /\ projects' = projects
                      /\ psave' = PReplied("IntegrityError", 0)
           \/ /\ psave.op = "update"
              /\ IF id[1] = "int" /\ id[2] \in DOMAIN projects.rows
                 THEN IF PConstraintsHold(PUpdated(projects.rows[id[2]], vals))
                      THEN /\ projects' = [projects EXCEPT !.rows[id[2]] =
                                              PUpdated(projects.rows[id[2]], vals)]
                           /\ psave' = PReplied("ok", 0)
                      ELSE /\ projects' = projects
                           /\ psave' = PReplied("IntegrityError", 0)
                 ELSE /\ projects' = projects
                      /\ psave' = PReplied("ok", 0)
           \/ /\ PHasMarker(psave.vals) \/ psave.id = NULL
              /\ projects' = projects
              /\ psave' = PReplied("ProgrammingError", 0)
    /\ UNCHANGED <<proj, files, pev>>
    /\ UNCHANGED <<storeVars, recVars, tasks, ev, futVars, config, ret,
                   runVars, catalog, setupSt, arg, got, awaitable>>

\* Project.save after its await with Project._saveCallback
\* (record.py:242-246, project.py:119-133).
PSaveResume(io) ==
    /\ psave.pc = "replied"
    /\ IF psave.out = "ok"
       THEN LET keyed == IF psave.op = "insert"
                         THEN [proj.fields EXCEPT ![PPrimaryKey] = IntV(psave.key)]
                         ELSE proj.fields
                saved == [proj EXCEPT !.fields = PSaveCallbackFields(keyed),
                                      !.committed = TRUE]
                h == LogoHook(saved, files, io)
            IN  /\ proj' = h.proj
                /\ files' = h.files
                /\ pev' = PEvent("save", h.out)
       ELSE /\ UNCHANGED <<proj, files>>
            /\ pev' = PEvent("save", psave.out)
    /\ psave' = PIdle
    /\ UNCHANGED projects
    /\ UNCHANGED <<storeVars, recVars, tasks, ev, futVars, config, ret,
                   runVars, catalog, setupSt, arg, got, awaitable>>

\* Input mappings a Project is made of.
PIn(o, n, d) ==
    [projID |-> Absent, orgID |-> o, name |-> n, desc |-> d,
     homepage |-> Absent, logo |-> Absent]
PInputs ==
    {PIn(o, StrV(1), d) : o \in {Absent, StrV(101)}, d \in {StrV(1), StrV(2)}}

\* A stored project and the mapping a SELECT gives of it.
SeedProject ==
    [c \in PNonKeyCols |->
        CASE c = "name" -> StrV(1) [] c = "desc" -> StrV(2)
          [] c = "logo" -> BoolV(TRUE) [] OTHER -> SqlNull]
PRowData(k) ==
    [c \in PColSet |->
        IF c = PPrimaryKey THEN IntV(k) ELSE FromSql(projects.rows[k][c])]

StagedLogos == {<<Bytes(b), Mime(m)>> : b \in 0..2, m \in 0..1}

\* The instance is new, made of an input mapping, or was made of the
\* fetched row 1; logo files of earlier saves may be in the directory.
InitL ==
    /\ \E seeded \in BOOLEAN :
        /\ rows = SeedTable(seeded)
        /\ nextKey = IF seeded THEN 2 ELSE 1
    /\ \/ /\ projects = [rows |-> <<>>, next |-> 1]
          /\ \E data \in PInputs : proj = NewProject(data, FALSE)
       \/ /\ projects = [rows |-> [k \in {1} |-> SeedProject], next |-> 2]
          /\ proj = NewProject(PRowData(1), TRUE)
    /\ psave = PIdle
    /\ files \in [0..MaxKey -> {"none", "old"}]
    /\ pev = NoPEvent
    /\ fields = Unset
    /\ modified = {}
    /\ committed = FALSE
    /\ tasks = [t \in Tasks |-> IdleTask]
    /\ ev = NoEvent
    /\ InitFuture
    /\ InitNoDelete
    /\ InitNoFind
    /\ InitRun
    /\ InitNoSetup
    /\ InitNoData

NextL ==
    \/ \E l \in StagedLogos : SetLogo(l[1], l[2])
    \/ RemoveLogo
    \/ PSaveCall
    \/ PStoreExec
    \/ \E io \in IOs : PSaveResume(io)

SpecLogo == InitL /\ [][NextL]_vars

\* ------------------------------------------------------ schema.py: setup

\* setup(conn) reads the names of the tables of the public schema
\* (schema.py:103-105) and begins its transaction (107).
SetupCall ==
    /\ setupSt.pc \in {"idle", "done", "failed"}
    /\ setupSt' = [pc |-> "begun", existing |-> catalog.tables, before |-> catalog]
    /\ UNCHANGED <<catalog, storeVars, recVars, tasks, ev, futVars, config,
                   ret, runVars, logoVars, arg, got, awaitable>>

\* for enm in enums: DROP TYPE IF EXISTS ... CASCADE, CREATE TYPE
\* (schema.py:108-110).
SetupEnums ==
    /\ setupSt.pc = "begun"
    /\ catalog' = [catalog EXCEPT !.types = (@ \ SeqRange(enums)) \cup SeqRange(enums)]
    /\ setupSt' = [setupSt EXCEPT !.pc = "enums"]
    /\ UNCHANGED <<storeVars, recVars, tasks, ev, futVars, config, ret,
                   runVars, logoVars, arg, got, awaitable>>

\* for tab in existingTables: DROP TABLE ... CASCADE (schema.py:111-113).
SetupDrop ==
    /\ setupSt.pc = "enums"
    /\ catalog' = [catalog EXCEPT !.tables = @ \ setupSt.existing]
    /\ setupSt' = [setupSt EXCEPT !.pc = "dropped"]
    /\ UNCHANGED <<storeVars, recVars, tasks, ev, futVars, config, ret,
                   runVars, logoVars, arg, got, awaitable>>

\* for tab in tables: CREATE TABLE (schema.py:114-116), and the
\* transaction commits as its block is left.
SetupCreate ==
    /\ setupSt.pc = "dropped"
    /\ catalog' = [catalog EXCEPT !.tables = @ \cup SeqRange(tables)]
    /\ setupSt' = [setupSt EXCEPT !.pc = "done"]
    /\ UNCHANGED <<storeVars, recVars, tasks, ev, futVars, config, ret,
                   runVars, logoVars, arg, got, awaitable>>

\* A statement of the transaction raises: the block is left by the
\* exception and the transaction is rolled back.
SetupFails ==
    /\ setupSt.pc \in {"begun", "enums", "dropped"}
    /\ catalog' = setupSt.before
    /\ setupSt' = [setupSt EXCEPT !.pc = "failed"]
    /\ UNCHANGED <<storeVars, recVars, tasks, ev, futVars, config, ret,
                   runVars, logoVars, arg, got, awaitable>>

\* Any schema may be there before setup: tables of this schema, a table
\* of another application, the enum types or not.
InitS ==
    /\ catalog \in [tables : SUBSET (SchemaTables \cup {"legacy"}),
                    types : SUBSET SeqRange(enums)]
    /\ setupSt = SetupIdle
    /\ rows = SeedTable(FALSE)
    /\ nextKey = 1
    /\ fields = Unset
    /\ modified = {}
    /\ committed = FALSE
    /\ tasks = [t \in Tasks |-> IdleTask]
    /\ ev = NoEvent
    /\ InitFuture
    /\ InitNoDelete
    /\ InitNoFind
    /\ InitRun
    /\ InitNoLogo
    /\ InitNoData

NextS ==
    \/ SetupCall
    \/ SetupEnums
    \/ SetupDrop
    \/ SetupCreate
    \/ SetupFails

SpecSetup == InitS /\ [][NextS]_vars

\* ------------------------------------------------ record.py: Record.deleteID

\* Record.deleteID (record.py:161-173), called by projectRemove
\* (organisation/__init__.py:116-132): the DELETE is handed to
\* asyncio.ensure_future and a new, unrelated Future is returned at once.
\* The Future is pending (record.py:167); nothing is given a reference to
\* it but the caller, which drops it (organisation/__init__.py:130).
DeleteIDCall(t, k) ==
    /\ FirstIdle(t)
    /\ tasks' = [tasks EXCEPT ![t] =
                    [IdleTask EXCEPT !.pc = "sent", !.call = "deleteID",
                                     !.op = "delete", !.id = IntV(k)]]
    /\ awaitable' = [awaitable EXCEPT ![t] = "pending"]
    /\ ev' = Event("deleteID", "delete", "return")
    /\ UNCHANGED <<storeVars, recVars, futVars, config, ret, runVars, logoVars,
                   catalog, setupSt, arg, got>>

\* conn.execute raises for a reason of the store or the network
\* (the connection is lost, the statement times out).
StoreFails(t) ==
    /\ tasks[t].pc = "sent"
    /\ tasks' = [tasks EXCEPT ![t].pc = "replied", ![t].out = "OperationalError"]
    /\ UNCHANGED <<storeVars, recVars, ev, futVars, config, ret, runVars,
                   extVars>>

\* The task ensure_future made ends; nothing awaits it, so its result or
\* its exception goes to no caller.
TaskEnd(t) ==
    /\ tasks[t].call = "deleteID"
    /\ tasks[t].pc = "replied"
    /\ tasks' = [tasks EXCEPT ![t] = IdleTask]
    /\ UNCHANGED <<storeVars, recVars, ev, futVars, config, ret, runVars,
                   extVars>>

InitD ==
    /\ \E seeded \in BOOLEAN :
        /\ rows = SeedTable(seeded)
        /\ nextKey = IF seeded THEN 2 ELSE 1
    /\ fields = Unset
    /\ modified = {}
    /\ committed = FALSE
    /\ tasks = [t \in Tasks |-> IdleTask]
    /\ ev = NoEvent
    /\ InitFuture
    /\ InitNoDelete
    /\ InitNoFind
    /\ InitRun
    /\ InitNoLogo
    /\ InitNoData
    /\ InitNoSetup

NextD ==
    \/ \E t \in Tasks, k \in Keys : DeleteIDCall(t, k)
    \/ \E t \in Tasks : StoreExec(t)
    \/ \E t \in Tasks : StoreFails(t)
    \/ \E t \in Tasks : TaskEnd(t)
    \/ \E row \in TableRows : TableInsert(row)

SpecDelete == InitD /\ [][NextD]_vars

\* The event loop runs every task that can run, and the store answers
\* every statement it is sent.
SpecDeleteFair ==
    /\ SpecDelete
    /\ \A t \in Tasks : WF_vars(StoreExec(t))
    /\ \A t \in Tasks : WF_vars(TaskEnd(t))

\* ------------------------------- Record.__init__ and clean on their mappings

\* The values a caller gives each key of a mapping: posted form fields are
\* strings (organisation/__init__.py:98-101, project/__init__.py:88-98,
\* 150-153), a fetched row holds typed values and None.  removeLogo is a
\* form field that is no column (organisation/__init__.py:103).
Mappings ==
    {Dict(m) : m \in
        [orgID : {Absent, None, IntV(0), StrV(1), StrV(101)},
         name : {Absent, None, StrV(0), StrV(1), StrV(5), StrV(6)},
         desc : {Absent, StrV(0), StrV(2), IntV(0)},
         logo : {Absent, None, BoolV(FALSE), BoolV(TRUE)},
         removeLogo : {Absent, StrV(0), StrV(1)}]}

\* cls(data, committed) (record.py:175-194): int() of a string that is no
\* number raises ValueError and no instance is made.
Construct(committed_) ==
    /\ LET a == Attrs(arg)
       IN  IF \E c \in DOMAIN a : a[c] = Raised
           THEN got' = [NoRes EXCEPT !.call = "init", !.out = "ValueError"]
           ELSE got' = [NoRes EXCEPT !.call = "init", !.out = "return",
                               !.value = [attrs |-> a, committed |-> committed_]]
    /\ UNCHANGED <<arg, storeVars, recVars, tasks, ev, futVars, config, ret,
                   runVars, logoVars, catalog, setupSt, awaitable>>

\* clean(data, table) (database/__init__.py:33-51).
CleanCall ==
    /\ got' = [NoRes EXCEPT !.call = "clean", !.out = "return",
                         !.value = CleanData(arg)]
    /\ UNCHANGED <<arg, storeVars, recVars, tasks, ev, futVars, config, ret,
                   runVars, logoVars, catalog, setupSt, awaitable>>

\* The cleaned mapping is cleaned again: a handler that cleans its values
\* (project/__init__.py:153) and insert, which cleans what it is given
\* (database/__init__.py:94).
CleanAgain ==
    /\ got.call = "clean"
    /\ got' = [NoRes EXCEPT !.call = "cleanAgain", !.out = "return",
                         !.value = CleanData(got.value), !.prev = got.value]
    /\ UNCHANGED <<arg, storeVars, recVars, tasks, ev, futVars, config, ret,
                   runVars, logoVars, catalog, setupSt, awaitable>>

InitM ==
    /\ arg \in Mappings
    /\ got = NoRes
    /\ rows = SeedTable(FALSE)
    /\ nextKey = 1
    /\ fields = Unset
    /\ modified = {}
    /\ committed = FALSE
    /\ tasks = [t \in Tasks |-> IdleTask]
    /\ ev = NoEvent
    /\ InitFuture
    /\ InitNoDelete
    /\ InitNoFind
    /\ InitRun
    /\ InitNoLogo
    /\ InitNoSetup

NextM ==
    \/ \E committed_ \in BOOLEAN : Construct(committed_)
    \/ CleanCall
    \/ CleanAgain

SpecData == InitM /\ [][NextM]_vars

\* ------------------------------------------------------------------ claims

SavesInFlight == {t \in Tasks : tasks[t].call = "save" /\ tasks[t].pc # "idle"}

\* C1: when save() of an uncommitted Record returns after a successful
\* insert, the record is committed, its primary-key field holds the key the
\* store returned for the inserted row, no column is left unset, and every
\* column that was unset when save() was called holds the NULL marker.
C1_SaveInsertCommitsAndFills ==
    [][\A t \in Tasks :
        (/\ tasks[t].call = "save" /\ tasks[t].op = "insert"
         /\ tasks[t].pc = "replied" /\ tasks[t].out = "ok"
         /\ tasks'[t].pc = "idle")
        => /\ committed'
           /\ fields'[PrimaryKey] = IntV(tasks[t].key)
           /\ tasks[t].key \in DOMAIN rows
           /\ \A c \in ColSet : fields'[c] # None
           /\ \A c \in NonKeyCols : tasks[t].pre[c] = None => fields'[c] = NULL]_vars

\* save() has just returned from an insert and a column that was never
\* given a value holds the marker.
C1_Witness ==
    /\ ev = Event("save", "insert", "return")
    /\ committed
    /\ fields[PrimaryKey][1] = "int"
    /\ \E c \in NonKeyCols : fields[c] = NULL

\* C2: a Record that is not committed has its primary-key field unset,
\* except while an insert for it is in flight.
C2_UncommittedHasNoKey ==
    (~committed /\ \A t \in Tasks : tasks[t].op # "insert")
        => fields[PrimaryKey] = None

\* C3: a save() called while an earlier save() of the same instance has not
\* completed is rejected and issues no statement, so at most one statement
\* of save() is outstanding for the instance.
C3_SecondSaveRejected == Cardinality(SavesInFlight) <= 1

\* C4: the UPDATE that save() issues for a committed Record sets exactly the
\* columns modified since the last commit.
C4_UpdateSetsExactlyDirty ==
    [][\A t \in Tasks :
        (Idle(t) /\ tasks'[t].call = "save" /\ tasks'[t].op = "update")
        => {c \in NonKeyCols : tasks'[t].vals[c] # Absent} = modified]_vars

\* C5: delete() of an uncommitted Record raises InvalidStateError and
\* issues no DELETE; delete() of a committed Record deletes the row of the
\* record's own key, and once that DELETE has completed every field of the
\* record is unset.
C5_DeleteResetsFields ==
    /\ ev = Event("delete", "none", "InvalidStateError") => ~committed
    /\ \A t \in Tasks :
        tasks[t].call = "fdelete" =>
            /\ tasks[t].op = "delete"
            /\ tasks[t].id = tasks[t].pre[PrimaryKey]
            /\ tasks[t].pre[PrimaryKey][1] = "int" /\ tasks[t].pc = "replied"
                => /\ tasks[t].pre[PrimaryKey][2] \notin DOMAIN rows
                   /\ \A c \in ColSet : fields[c] = None

\* C6: with no operation in flight, committed is true exactly when a row
\* of the record is stored (the table holds no other rows).
C6_CommittedIffRowExists ==
    (NoneInFlight /\ future = 0 /\ \A t \in Tasks : cbs[t] = "none")
        => (committed <=> DOMAIN rows # {})

\* C7: findOne returns None when the query matches no row, the first row of
\* the result when some row matches, and raises NotUniqueError exactly when
\* strict is set and more than one row matches; findID of a key that has
\* no row returns None.
C7_FindOneFirstOrNone ==
    ret.call \in {"findOne", "findID"} =>
        LET matched == Select(ret.q)
        IN  /\ Len(matched) = 0 => ret.out = "return" /\ ret.value = <<>>
            /\ ret.out = "NotUniqueError" <=> (ret.strict /\ Len(matched) > 1)
            /\ (Len(matched) > 0 /\ ~(ret.strict /\ Len(matched) > 1)) =>
                   /\ ret.out = "return"
                   /\ Len(ret.value) = 1
                   /\ ret.value[1].fields[PrimaryKey] = IntV(matched[1])
            /\ (ret.call = "findID" /\ ret.q.key \notin DOMAIN rows) =>
                   ret.out = "return" /\ ret.value = <<>>

\* findID was asked for a key that has no row while the table holds rows,
\* and returned None.
C7_Witness ==
    /\ ret.call = "findID"
    /\ DOMAIN rows # {}
    /\ ret.q.key \notin DOMAIN rows
    /\ ret.out = "return" /\ ret.value = <<>>

\* C8: every record find returns is committed and has every column set, a
\* column that is NULL in the row holding the NULL marker, and the records
\* are in the order of the rows of the result.
C8_FindFullyPopulated ==
    ret.call = "find" =>
        /\ Len(ret.value) = Len(Select(ret.q))
        /\ \A i \in 1..Len(ret.value) :
            LET k == Select(ret.q)[i]
            IN  /\ ret.value[i].committed
                /\ ret.value[i].fields[PrimaryKey] = IntV(k)
                /\ \A c \in ColSet : ret.value[i].fields[c] # None
                /\ \A c \in NonKeyCols :
                       rows[k][c] = SqlNull => ret.value[i].fields[c] = NULL

\* C9: getList of a page below 1 raises AppFatalError and sends no query;
\* an empty result raises AppFatalError for a page above 1 and AppError for
\* page 1; otherwise the rows of the page are returned, and there is at
\* least one.
C9_GetListPages ==
    ret.call = "getList" =>
        /\ ret.page < 1 => ret.out = "AppFatalError" /\ ~ret.queried
        /\ ret.page >= 1 =>
            LET matched == Select(ret.q)
            IN  /\ (Len(matched) = 0 /\ ret.page > 1) => ret.out = "AppFatalError"
                /\ (Len(matched) = 0 /\ ret.page = 1) => ret.out = "AppError"
                /\ Len(matched) > 0 =>
                       /\ ret.out = "return"
                       /\ Len(ret.value) = Len(matched)
                       /\ \A i \in 1..Len(matched) :
                              ret.value[i].fields[PrimaryKey] = IntV(matched[i])

\* getList was asked for a page past the last row of a table that holds
\* rows, and failed fatally.
C9_Witness ==
    /\ ret.call = "getList"
    /\ ret.page > 1
    /\ DOMAIN rows # {}
    /\ ret.queried
    /\ ret.out = "AppFatalError"

Own(p) == {c \in Calls : /\ calls[c].pc \in {"exec", "exit"}
                         /\ calls[c].on = "own" /\ calls[c].pool = p}

\* C10: a call of the query runner that is given a connection executes on
\* it and acquires none; a call that is given none acquires exactly one,
\* and has given it back when it exits, by return or by raise: the
\* connections out of a pool are those of the calls now executing.
C10_RunnerReleases ==
    /\ \A c \in Calls :
        /\ calls[c].given =>
              /\ calls[c].acquired = 0
              /\ calls[c].pc \in {"exec", "exit", "done"} => calls[c].on = "given"
        /\ (~calls[c].given /\ calls[c].pc \in {"exec", "exit", "done"}) =>
              calls[c].acquired = 1 /\ calls[c].on = "own"
    /\ \A p \in Pools : held[p] = Cardinality(Own(p))

\* A call that acquired its connection has exited by raising, and no
\* connection is out of any pool.
C10_Witness ==
    /\ \E c \in Calls : /\ calls[c].pc = "done" /\ calls[c].out = "raise"
                        /\ calls[c].acquired = 1
    /\ \A p \in Pools : held[p] = 0

\* C11: an insert that breaks an integrity constraint of the store does not
\* raise to its caller: the call yields None and the table is as it was,
\* through database.insert and through the save of a new Record.
C11_IntegrityErrorYieldsNone ==
    [][/\ (ev'.op = "insert" /\ ev'.out = "None") => rows' = rows
       /\ ev'.op = "insert" => ev'.out \in {"return", "None"}
       /\ \A t \in Tasks :
            (/\ tasks[t].call = "save" /\ tasks[t].op = "insert"
             /\ tasks[t].pc = "replied" /\ tasks[t].out = "IntegrityError"
             /\ tasks'[t].pc = "idle")
            => /\ ev'.out # "IntegrityError"
               /\ rows' = rows]_vars

\* The save of the Project has its reply and the step ends it.
PSaveEnds == psave.pc = "replied" /\ psave'.pc = "idle"

\* The step runs the post-save hook: the statement of save succeeded.
HookRuns == PSaveEnds /\ psave.out = "ok"

\* C12: setLogo returns normally and leaves every file as it is, whatever
\* the MIME type and size; the save that follows a setLogo of a MIME type
\* that is no image, or of bytes above the maximum, raises AppError and
\* leaves every file as it is.
C12_LogoValidatedAtSave ==
    [][/\ pev'.call = "setLogo" => pev'.out = "return" /\ files' = files
       /\ (/\ HookRuns
           /\ proj.fields["logo"] = BoolV(TRUE)
           /\ proj.logoData # None
           /\ ~IsImage(proj.logoMime) \/ TooLarge(proj.logoData))
          => pev'.out = "AppError" /\ files' = files]_vars

\* C13: when removeLogo has returned, the logo flag is false and no logo
\* bytes or MIME type are staged.
C13_RemoveLogoDiscardsStaged ==
    pev.call = "removeLogo" =>
        /\ proj.fields["logo"] = BoolV(FALSE)
        /\ proj.logoData = None
        /\ proj.logoMime = None

\* C14: a removeLogo that follows a removeLogo changes nothing, and after
\* the save that follows, once it has returned, no logo file exists for
\* the record's key and the logo flag is false.
C14_RemoveLogoIdempotent ==
    [][/\ (pev.call = "removeLogo" /\ pev'.call = "removeLogo") => proj' = proj
       /\ (HookRuns /\ proj.fields["logo"] = BoolV(FALSE) /\ pev'.out = "return")
          => /\ files'[LogoPath(proj'.fields[PPrimaryKey])] = "none"
             /\ proj'.fields["logo"] = BoolV(FALSE)]_vars

\* C15: when the hook runs with the logo flag false, a logo file exists
\* for the record's key and removing it fails, save raises AppFatalError.
C15_RemoveFailureIsFatal ==
    [][(/\ HookRuns
        /\ proj.fields["logo"] = BoolV(FALSE)
        /\ files[LogoPath(proj'.fields[PPrimaryKey])] # "none"
        /\ files'[LogoPath(proj'.fields[PPrimaryKey])] # "none")
       => pev'.out = "AppFatalError"]_vars

\* C16: after the post-save hook has run, no logo bytes and no MIME type
\* are staged, however the hook ended.
C16_StagedClearedAfterHook ==
    [][HookRuns => proj'.logoData = None /\ proj'.logoMime = None]_vars

\* C17: a Project made of an input that gives name and desc only, saved
\* with no setLogo or removeLogo before, is committed, its orgID is the
\* NULL marker and its logo is false.
C17_NewProjectDefaults ==
    [][(/\ HookRuns /\ psave.op = "insert"
        /\ proj.fields["orgID"] = None /\ proj.fields["logo"] = None
        /\ proj.fields["name"] # None /\ proj.fields["desc"] # None)
       => /\ pev'.out = "return"
          /\ proj'.committed
          /\ proj'.fields["orgID"] = NULL
          /\ proj'.fields["logo"] = BoolV(FALSE)]_vars

\* C18: the entity made of a fetched row and the entity fetched again by
\* its primary key, with no write in between, are equal in every column.
C18_RefetchRoundTrip ==
    ret.call = "refetch" =>
        /\ ret.out = "return"
        /\ Len(ret.value) = 2
        /\ \A c \in ColSet : ret.value[1].fields[c] = ret.value[2].fields[c]
        /\ ret.value[2].committed

\* The second of two stored rows, one of whose columns is NULL, was
\* fetched and fetched again.
C18_Witness ==
    /\ ret.call = "refetch"
    /\ Len(ret.value) = 2
    /\ Cardinality(DOMAIN rows) = 2
    /\ ret.value[1].fields[PrimaryKey] = IntV(2)
    /\ \E c \in NonKeyCols : rows[2][c] = SqlNull

\* C19: when setup has completed, the store has the tables projects,
\* organisations, urls, groups, memberships, users and sessions and the
\* types urltype and oauthprovider, and no other table.
C19_SetupLeavesSchema ==
    setupSt.pc = "done" =>
        /\ catalog.tables =
              {"projects", "organisations", "urls", "groups", "memberships",
               "users", "sessions"}
        /\ catalog.types = {"urltype", "oauthprovider"}

\* C20: when deleteID has returned without error, the DELETE has been
\* executed, and a DELETE that fails is reported to the caller of deleteID.
C20_DeleteIDSynchronous ==
    [][\A t \in Tasks :
        /\ (Idle(t) /\ tasks'[t].call = "deleteID" /\ ev'.out = "return")
           => tasks'[t].pc = "idle" /\ tasks'[t].id[2] \notin DOMAIN rows'
        /\ (/\ tasks[t].call = "deleteID" /\ tasks[t].pc = "replied"
            /\ tasks[t].out # "ok" /\ tasks'[t].pc = "idle")
           => ev'.out = tasks[t].out]_vars

\* C21: a column that was absent from the constructor's input and never
\* assigned afterwards is not named by the INSERT or UPDATE of save(), and
\* the statement leaves that column of every stored row as it was.
C21_UnsetFieldsNotSent ==
    [][\A t \in Tasks :
        (/\ tasks[t].call = "save" /\ tasks[t].pc = "sent"
         /\ tasks'[t].pc = "replied")
        => \A c \in NonKeyCols :
            (tasks[t].pre[c] = None /\ c \notin modified)
            => /\ tasks[t].vals[c] = Absent
               /\ \A k \in DOMAIN rows :
                    k \in DOMAIN rows' /\ rows'[k][c] = rows[k][c]]_vars

\* The page size configured for an entity's list.
PageSize(cls) ==
    IF cls = "Project" THEN config.projectsPerPage
    ELSE config.organisationsPerPage

\* C22: the pages of getList partition the table: page p holds the rows at
\* positions (p-1)*pageSize .. p*pageSize-1 of the table's row order, for
\* Project and for Organisation and for every configured page size.
C22_PagesPartition ==
    (ret.call = "getList" /\ ret.out = "return") =>
        LET all == KeySeq(DOMAIN rows)
            first == (ret.page - 1) * PageSize(ret.cls) + 1
            last == Min(Len(all), ret.page * PageSize(ret.cls))
        IN  /\ Len(ret.value) = last - first + 1
            /\ \A i \in 1..Len(ret.value) :
                   /\ first + i - 1 \in 1..Len(all)
                   /\ ret.value[i].fields[PrimaryKey] = IntV(all[first + i - 1])

\* C23: the constructor sets exactly the fields that are both columns of the
\* table and keys of the input: a column the input does not name stays
\* unset, a key that is no column makes no field, and a falsy value (None,
\* 0, "", False) is stored as given, without coercion.
C23_ConstructSetsNamedColumns ==
    (got.call = "init" /\ got.out = "return") =>
        /\ DOMAIN got.value.attrs = ColSet \cap DOMAIN arg
        /\ \A c \in DOMAIN got.value.attrs :
               ~Truthy(arg[c]) => got.value.attrs[c] = arg[c]

\* A record was made of an input that names a key that is no column, leaves
\* a column out and gives a falsy value and a value that is coerced.
C23_Witness ==
    /\ got.call = "init" /\ got.out = "return"
    /\ "removeLogo" \in DOMAIN arg
    /\ "desc" \notin DOMAIN arg
    /\ "name" \in DOMAIN arg /\ arg["name"] = StrV(0)
    /\ "orgID" \in DOMAIN arg /\ arg["orgID"] = StrV(101)
    /\ got.value.attrs["orgID"] = IntV(1)

\* C30: clean returns only keys that are columns other than the primary
\* key, its result holds no empty string, and cleaning the result again
\* gives the same mapping.
C30_CleanIdempotent ==
    /\ got.call = "clean" =>
        /\ DOMAIN got.value \subseteq NonKeyCols
        /\ \A k \in DOMAIN got.value : got.value[k] # StrV(0)
    /\ got.call = "cleanAgain" => got.value = got.prev

\* C24: while a save, update or delete of a Record instance is outstanding,
\* a call of update() or delete() on the instance is rejected with
\* OperationPendingError and schedules no statement, so no two store
\* operations of one instance are outstanding at once.
C24_GuardCoversAll ==
    [][/\ (future # 0 /\ ev' # ev /\ ev'.op \in {"update", "delete"})
          => ev'.out = "OperationPendingError"
       /\ \A t \in Tasks :
            (/\ Idle(t) /\ tasks'[t].pc = "sent"
             /\ tasks'[t].call \in {"fupdate", "fdelete"})
            => /\ future = 0
               /\ \A u \in Tasks : tasks[u].pc # "sent"]_vars

\* C25: when the query runner acquired the connection itself, every row of
\* the result is read while that connection is held: no row is read after
\* the connection went back to the pool.
C25_RowsReadWhileHeld ==
    \A c \in Calls :
        calls[c].on = "own" => calls[c].rowsRead # "released"

\* C26: however the calls of _runQuery interleave, the shared engine is
\* created at most once.
C26_EngineCreatedOnce == created <= 1

\* C27: once the DELETE of a deleteID call has been executed, the awaitable
\* the call returned eventually completes.
C27_DeleteIDCompletes ==
    \A t \in Tasks :
        (tasks[t].call = "deleteID" /\ tasks[t].pc = "replied")
            ~> (awaitable[t] = "done")

\* C28: every accepted save(), update() or delete() of the future-based
\* Record eventually has its future resolved and its callback run: the
\* pending marker is cleared again, and the record of an accepted save is
\* eventually committed.
C28_FutureResolved ==
    /\ \A t \in Tasks : (cbs[t] # "none") ~> (cbs[t] = "none" /\ future # t)
    /\ \A t \in Tasks : (cbs[t] = "save") ~> committed

\* C29: whenever save() of a logo-bearing record has returned or raised,
\* the stored row's logo flag is true exactly when a logo file exists for
\* the record's key.
C29_LogoFlagMatchesFile ==
    (/\ pev.call = "save"
     /\ proj.fields[PPrimaryKey][1] = "int"
     /\ proj.fields[PPrimaryKey][2] \in DOMAIN projects.rows)
    => LET k == proj.fields[PPrimaryKey][2]
       IN  projects.rows[k]["logo"] = BoolV(TRUE) <=> files[k] # "none"

=============================================================================
